---- MODULE Spec2Model ----
(***************************************************************************)
(* hUGETracker UGE v5/v6 decoder (scripts/uge_parser.py) and the minimal   *)
(* v6 fixture writer (scripts/generate_minimal_uge.py).                    *)
(*                                                                         *)
(* A byte stream is a record [len, data]: len is the number of bytes and   *)
(* data maps the offsets of the NONZERO bytes to their value; every other  *)
(* offset below len holds 0x00.  32-bit words are integers below 2^31 (the *)
(* range of TLC's integers): the inputs keep the top bit clear.            *)
(***************************************************************************)
EXTENDS Integers, Sequences, FiniteSets, TLC

VARIABLES stream, pos, pc, version, song, cur, status, err, warnings,
          eofRaised, val, out

vars == <<stream, pos, pc, version, song, cur, status, err, warnings,
          eofRaised, val, out>>

\* ------------------------------------------------------------------ bounds
MaxPatterns == 2
MaxOrderWord == 3
MaxStrLen == 2
MaxTrail == 2

\* ------------------------------------------------------- format constants
ShortStringPayload == 255
PeekLen == 8
MaxShift == 4
RowsPerBlock == 64
PostRowsUnused == 6
SlotsPerKind == 15
NumWaves == 16
NibblesPerWave == 32
NumChannels == 4
NumRoutines == 16
WavetableFillerBelow == 3
RowBytes == 4 + 4 + 4 + 4 + 1

None == <<>>
Some(x) == <<x>>

Max(a, b) == IF a >= b THEN a ELSE b
Min(a, b) == IF a <= b THEN a ELSE b

\* ------------------------------------------------------------ byte streams
EmptyStream == [len |-> 0, data |-> <<>>]

ByteAt(s, i) == IF i \in DOMAIN s.data THEN s.data[i] ELSE 0

\* f.write(bs): append the bytes of the sequence bs
WriteBytes(f, bs) ==
    LET nz == {i \in 1..Len(bs) : bs[i] # 0}
    IN  [len  |-> f.len + Len(bs),
         data |-> IF nz = {} THEN f.data
                  ELSE [o \in {f.len + i - 1 : i \in nz} |-> bs[o - f.len + 1]] @@ f.data]

\* f.write(b'\x00' * n)
WriteZeros(f, n) == [f EXCEPT !.len = @ + n]

\* the first n bytes of s
Truncate(s, n) ==
    [len |-> n, data |-> [o \in {i \in DOMAIN s.data : i < n} |-> s.data[o]]]

\* struct.pack('<I', v)
PackU32(v) == << v % 256, (v \div 256) % 256, (v \div 65536) % 256, (v \div 16777216) % 256 >>

\* struct.unpack('<B', ...) and struct.unpack('<I', ...) of the bytes at offset p
U8At(s, p) == ByteAt(s, p)

LittleEndianU32At(s, p) ==
    ByteAt(s, p) + 256 * ByteAt(s, p + 1) + 65536 * ByteAt(s, p + 2)
        + 16777216 * ByteAt(s, p + 3)

BigEndianU32At(s, p) ==
    ByteAt(s, p + 3) + 256 * ByteAt(s, p + 2) + 65536 * ByteAt(s, p + 1)
        + 16777216 * ByteAt(s, p)

U32At(s, p) == LittleEndianU32At(s, p)

BytesAt(s, p, n) == [i \in 1..n |-> ByteAt(s, p + i - 1)]

\* ------------------------------------------------------------------ UTF-8
\* str.encode('utf-8') of one code point (no surrogates in the model's strings)
EncodeCp(c) ==
    IF c < 128 THEN << c >>
    ELSE IF c < 2048 THEN << 192 + (c \div 64), 128 + (c % 64) >>
    ELSE IF c < 65536 THEN << 224 + (c \div 4096), 128 + ((c \div 64) % 64), 128 + (c % 64) >>
    ELSE << 240 + (c \div 262144), 128 + ((c \div 4096) % 64),
            128 + ((c \div 64) % 64), 128 + (c % 64) >>

\* str.encode('utf-8'); the string is split in halves to keep the evaluation shallow
RECURSIVE Utf8Encode(_)
Utf8Encode(str) ==
    IF str = <<>> THEN <<>>
    ELSE IF Len(str) = 1 THEN EncodeCp(str[1])
    ELSE LET h == Len(str) \div 2
         IN  Utf8Encode(SubSeq(str, 1, h)) \o Utf8Encode(SubSeq(str, h + 1, Len(str)))

Replacement == 65533

IsCont(b) == b >= 128 /\ b <= 191

\* lower and upper bound of the byte that may follow the lead byte b
SecondLo(b) == IF b = 224 THEN 160 ELSE IF b = 240 THEN 144 ELSE 128
SecondHi(b) == IF b = 237 THEN 159 ELSE IF b = 244 THEN 143 ELSE 191

\* One step of bytes.decode('utf-8', errors='replace') at index i: the code point
\* produced and the index after it (one U+FFFD per maximal ill-formed prefix).
Utf8Step(bs, i) ==
    LET b  == bs[i]
        n  == Len(bs)
        need == IF b < 128 THEN 1
                ELSE IF b >= 194 /\ b <= 223 THEN 2
                ELSE IF b >= 224 /\ b <= 239 THEN 3
                ELSE IF b >= 240 /\ b <= 244 THEN 4
                ELSE 0
        ok2 == i + 1 <= n /\ bs[i + 1] >= SecondLo(b) /\ bs[i + 1] <= SecondHi(b)
        ok3 == i + 2 <= n /\ IsCont(bs[i + 2])
        ok4 == i + 3 <= n /\ IsCont(bs[i + 3])
    IN  IF need = 1 THEN [cp |-> b, next |-> i + 1]
        ELSE IF need = 0 \/ ~ok2 THEN [cp |-> Replacement, next |-> i + 1]
        ELSE IF need = 2
             THEN [cp |-> (b - 192) * 64 + (bs[i + 1] - 128), next |-> i + 2]
        ELSE IF ~ok3 THEN [cp |-> Replacement, next |-> i + 2]
        ELSE IF need = 3
             THEN [cp |-> (b - 224) * 4096 + (bs[i + 1] - 128) * 64 + (bs[i + 2] - 128),
                   next |-> i + 3]
        ELSE IF ~ok4 THEN [cp |-> Replacement, next |-> i + 3]
        ELSE [cp |-> (b - 240) * 262144 + (bs[i + 1] - 128) * 4096
                        + (bs[i + 2] - 128) * 64 + (bs[i + 3] - 128),
              next |-> i + 4]

\* at most k steps from index i: the code points and the index reached
RECURSIVE Utf8DecodeSome(_, _, _)
Utf8DecodeSome(bs, i, k) ==
    IF i > Len(bs) \/ k = 0 THEN [out |-> <<>>, next |-> i]
    ELSE LET st   == Utf8Step(bs, i)
             rest == Utf8DecodeSome(bs, st.next, k - 1)
         IN  [out |-> << st.cp >> \o rest.out, next |-> rest.next]

\* the whole decode, a batch of steps at a time (keeps the evaluation shallow)
RECURSIVE Utf8DecodeFrom(_, _)
Utf8DecodeFrom(bs, i) ==
    IF i > Len(bs) THEN <<>>
    ELSE LET c == Utf8DecodeSome(bs, i, 16)
         IN  c.out \o Utf8DecodeFrom(bs, c.next)

Utf8Decode(bs) == Utf8DecodeFrom(bs, 1)

\* bytes.rstrip(b" "): everything up to the last byte that is not a space
RStripSpace(bs) ==
    LET keep == {i \in 1..Len(bs) : bs[i] # 32}
    IN  IF keep = {} THEN <<>>
        ELSE SubSeq(bs, 1, CHOOSE i \in keep : \A j \in keep : j <= i)

\* ------------------------------------------- writers (generate_minimal_uge)
\* The bytes each writer hands to f.write, and the writer itself. Consecutive writes
\* to one file append their bytes in call order.
u8_bytes(v) == << v >>

u32_bytes(v) == PackU32(v)

bool_bytes(v) == u8_bytes(IF v THEN 1 ELSE 0)

Zeros(n) == [i \in 1..n |-> 0]

shortstring_bytes(s) ==
    LET e == Utf8Encode(s)
        b == SubSeq(e, 1, Min(Len(e), ShortStringPayload))
    IN  u8_bytes(Len(b)) \o b \o Zeros(ShortStringPayload - Len(b))

string_bytes(s) ==
    LET b == Utf8Encode(s)
    IN  u32_bytes(Len(b)) \o b

write_u8(f, v) == WriteBytes(f, u8_bytes(v))

write_u32(f, v) == WriteBytes(f, u32_bytes(v))

write_bool(f, v) == WriteBytes(f, bool_bytes(v))

write_shortstring(f, s) == WriteBytes(f, shortstring_bytes(s))

write_string(f, s) == WriteBytes(f, string_bytes(s))

\* one subpattern / pattern row as the fixture writes it: 90, 0, 0x5A00, 0, 0
gen_row_bytes == u32_bytes(90) \o u32_bytes(0) \o u32_bytes(23040) \o u32_bytes(0) \o u8_bytes(0)

\* for row in range(n): the same 17 bytes n times
gen_rows_bytes(n) == [k \in 1..(n * RowBytes) |-> gen_row_bytes[((k - 1) % RowBytes) + 1]]

\* the code points of str(idx) for idx in 0..99
Digits(idx) == IF idx < 10 THEN << 48 + idx >> ELSE << 48 + (idx \div 10), 48 + (idx % 10) >>

write_minimal_duty_instrument(f, idx) ==
    WriteBytes(f,
        u32_bytes(0)
        \o shortstring_bytes(<< 100, 117, 116, 121 >> \o Digits(idx))
        \o u32_bytes(0) \o bool_bytes(FALSE)
        \o u8_bytes(15) \o u32_bytes(0) \o u8_bytes(0)
        \o u32_bytes(0) \o u32_bytes(0) \o u32_bytes(0)
        \o u8_bytes(2)
        \o u32_bytes(0) \o u32_bytes(0)
        \o u32_bytes(0)
        \o bool_bytes(FALSE)
        \o gen_rows_bytes(RowsPerBlock))

write_minimal_wave_instrument(f, idx) ==
    WriteBytes(f,
        u32_bytes(1)
        \o shortstring_bytes(<< 119, 97, 118, 101 >> \o Digits(idx))
        \o u32_bytes(0) \o bool_bytes(FALSE)
        \o u8_bytes(0) \o u32_bytes(0) \o u8_bytes(0)
        \o u32_bytes(0) \o u32_bytes(0) \o u32_bytes(0)
        \o u8_bytes(0)
        \o u32_bytes(3) \o u32_bytes(0)
        \o u32_bytes(0)
        \o bool_bytes(FALSE)
        \o gen_rows_bytes(RowsPerBlock))

write_minimal_noise_instrument(f, idx) ==
    WriteBytes(f,
        u32_bytes(2)
        \o shortstring_bytes(<< 110, 111, 105, 115, 101 >> \o Digits(idx))
        \o u32_bytes(0) \o bool_bytes(FALSE)
        \o u8_bytes(15) \o u32_bytes(1) \o u8_bytes(0)
        \o u32_bytes(0) \o u32_bytes(0) \o u32_bytes(0)
        \o u8_bytes(0)
        \o u32_bytes(0) \o u32_bytes(0)
        \o u32_bytes(0)
        \o bool_bytes(FALSE)
        \o gen_rows_bytes(RowsPerBlock))

\* for i in range(15): write_minimal_<kind>_instrument(f, i)
RECURSIVE gen_instruments(_, _, _)
gen_instruments(f, kind, i) ==
    IF i = SlotsPerKind THEN f
    ELSE LET g == CASE kind = "duty" -> write_minimal_duty_instrument(f, i)
                     [] kind = "wave" -> write_minimal_wave_instrument(f, i)
                     [] OTHER         -> write_minimal_noise_instrument(f, i)
         IN  IF g.len < 0 THEN g ELSE gen_instruments(g, kind, i + 1)

\* for w in range(16): for n in range(32): write_u8(f, n % 16)
gen_wavetable_bytes ==
    [k \in 1..(NumWaves * NibblesPerWave) |-> ((k - 1) % NibblesPerWave) % 16]

\* for ch in range(4): write_u32(f, 1); write_u32(f, 0)
gen_orders_bytes ==
    [k \in 1..(NumChannels * 8) |-> (u32_bytes(1) \o u32_bytes(0))[((k - 1) % 8) + 1]]

\* for i in range(16): write_string(f, "")
gen_routines_bytes ==
    [k \in 1..(NumRoutines * Len(string_bytes(<<>>))) |->
        string_bytes(<<>>)[((k - 1) % Len(string_bytes(<<>>))) + 1]]

generate_minimal_uge_v6 ==
    LET h == WriteBytes(EmptyStream,
                 u32_bytes(6)
                 \o shortstring_bytes(<< 84, 101, 115, 116, 32, 83, 111, 110, 103 >>)
                 \o shortstring_bytes(<< 84, 101, 115, 116, 32, 65, 114, 116, 105, 115, 116 >>)
                 \o shortstring_bytes(<< 71, 101, 110, 101, 114, 97, 116, 101, 100, 32, 109,
                                         105, 110, 105, 109, 97, 108, 32, 85, 71, 69, 32,
                                         118, 54 >>))
        d == gen_instruments(h, "duty", 0)
        w == gen_instruments(d, "wave", 0)
        n == gen_instruments(w, "noise", 0)
    IN  WriteBytes(n,
            gen_wavetable_bytes
            \o u32_bytes(7) \o bool_bytes(FALSE) \o u32_bytes(0) \o u32_bytes(1)
            \o u32_bytes(0) \o gen_rows_bytes(RowsPerBlock)
            \o gen_orders_bytes
            \o gen_routines_bytes)

\* ------------------------------------------------ safe read helpers
NoErr == [type |-> "none", offset |-> 0, need |-> 0, got |-> 0, ctx |-> <<>>, value |-> 0]

\* read_exact without the length test: a short read is handed on as if complete
read_exact_NoLengthTest(s, p, n, ctx) ==
    LET got == Min(n, Max(0, s.len - p))
    IN  [ok  |-> TRUE,
         pos |-> p + got,
         err |-> [type |-> "EOFError", offset |-> p, need |-> n, got |-> got,
                  ctx |-> ctx, value |-> 0]]

\* read_exact at offset p: f.read(n) returns the bytes that are left, at most n, and
\* moves the cursor over them; fewer than n raises EOFError(ctx, offset p).
read_exact(s, p, n, ctx) ==
    LET got == Min(n, Max(0, s.len - p))
    IN  [ok  |-> got = n,
         pos |-> p + got,
         err |-> [type |-> "EOFError", offset |-> p, need |-> n, got |-> got,
                  ctx |-> ctx, value |-> 0]]

\* A field list is a sequence of <<name, width>>: consecutive read_u8 / read_u32 /
\* read_exact calls. The first call that comes up short raises.
RECURSIVE ReadFieldsFrom(_, _, _, _, _)
ReadFieldsFrom(s, p, ctx, fields, i) ==
    IF i > Len(fields) THEN [ok |-> TRUE, pos |-> p, err |-> NoErr]
    ELSE LET r == read_exact(s, p, fields[i][2], ctx \o << fields[i][1] >>)
         IN  IF r.ok THEN ReadFieldsFrom(s, r.pos, ctx, fields, i + 1) ELSE r

ReadFields(s, p, ctx, fields) == ReadFieldsFrom(s, p, ctx, fields, 1)

RECURSIVE WidthUpTo(_, _)
WidthUpTo(fields, k) == IF k = 0 THEN 0 ELSE fields[k][2] + WidthUpTo(fields, k - 1)

Width(fields) == WidthUpTo(fields, Len(fields))

\* offset of the named field from the start of its field list
FieldOff(fields, name) ==
    WidthUpTo(fields, (CHOOSE i \in 1..Len(fields) : fields[i][1] = name) - 1)

\* for r in range(n): <the reads of fields>. The loop reads whole records while they
\* fit; the first record that does not fit raises at its first short field.
ReadRecords(s, p, ctx, n, fields) ==
    LET w     == Width(fields)
        whole == Max(0, s.len - p) \div w
    IN  IF n <= whole THEN [ok |-> TRUE, pos |-> p + n * w, err |-> NoErr]
        ELSE ReadFields(s, p + whole * w, ctx \o << whole >>, fields)

\* read_shortstring at p (both reads done): raw[:L].decode('utf-8', errors='replace')
ShortStringAt(s, p) == Utf8Decode(BytesAt(s, p + 1, U8At(s, p)))

HeaderFields ==
    << << "song_name.length", 1 >>,    << "song_name.payload[255]", ShortStringPayload >>,
       << "song_artist.length", 1 >>,  << "song_artist.payload[255]", ShortStringPayload >>,
       << "song_comment.length", 1 >>, << "song_comment.payload[255]", ShortStringPayload >> >>

\* ---------------------------------------------------------- instruments
Kinds == << "duty", "wave", "noise" >>

ExpectedTag(kind) == CASE kind = "duty" -> 0 [] kind = "wave" -> 1 [] OTHER -> 2

RowFields ==
    << << "note", 4 >>, << "unused", 4 >>, << "jump", 4 >>, << "effect_code", 4 >>,
       << "effect_param", 1 >> >>

RowWidth == Width(RowFields)
RowNoteOff == FieldOff(RowFields, "note")
RowJumpOff == FieldOff(RowFields, "jump")
RowEffectCodeOff == FieldOff(RowFields, "effect_code")
RowEffectParamOff == FieldOff(RowFields, "effect_param")

\* parse_instrument_rows: 64 rows, then 6 unused bytes when 4 <= version < 6
parse_instrument_rows(s, p, v, ctx) ==
    LET rr   == ReadRecords(s, p, ctx \o << "row" >>, RowsPerBlock, RowFields)
        post == IF rr.ok /\ 4 <= v /\ v < 6
                THEN ReadRecords(s, rr.pos, ctx \o << "post_rows_unused" >>, PostRowsUnused,
                                 << << "i8", 1 >> >>)
                ELSE rr
        rows == [r \in 1..RowsPerBlock |->
                    LET o == p + (r - 1) * RowWidth
                    IN  [note         |-> U32At(s, o + RowNoteOff),
                         jump         |-> U32At(s, o + RowJumpOff),
                         effect_code  |-> U32At(s, o + RowEffectCodeOff),
                         effect_param |-> U8At(s, o + RowEffectParamOff)]]
    IN  [ok |-> post.ok, pos |-> post.pos, err |-> post.err,
         rows |-> IF post.ok THEN rows ELSE <<>>]

NameFields ==
    << << "name.length", 1 >>, << "name.payload[255]", ShortStringPayload >>,
       << "length", 4 >>, << "length_enabled", 1 >> >>

\* DutyTailV5 with one of the three pre-v6 words forgotten
DutyTailV5_TwoWords == << << "unused_vlt6_c", 4 >>, << "unused_vlt6_d", 4 >> >>

DutyTailV5 == << << "unused_vlt6_c", 4 >>, << "unused_vlt6_d", 4 >>, << "unused_vlt6_e", 4 >> >>
WaveTailV5 == << << "unused_vlt6_a", 4 >>, << "unused_vlt6_b", 4 >>, << "unused_vlt6_c", 4 >> >>
NoiseTailV5 == << << "unused_vlt6_a", 4 >>, << "noise_mode", 4 >>, << "unused_vlt6_b", 4 >> >>
TailV6 == << << "subpattern_enabled", 1 >> >>

\* the reads of parse_duty_instrument after the type tag, up to the version branch
DutyFields(v) ==
    NameFields \o
    << << "initial_volume", 1 >>, << "volume_sweep_dir", 4 >>, << "volume_sweep_change", 1 >>,
       << "freq_sweep_time", 4 >>, << "sweep_enabled", 4 >>, << "freq_sweep_shift", 4 >>,
       << "duty_cycle", 1 >>, << "unused_a", 4 >>, << "unused_b", 4 >> >>
    \o (IF v < 6 THEN DutyTailV5 ELSE TailV6)

WaveFields(v) ==
    NameFields \o
    << << "unused1_u8", 1 >>, << "unused2_u32", 4 >>, << "unused3_u8", 1 >>,
       << "unused4_u32", 4 >>, << "unused5_u32", 4 >>, << "unused6_u32", 4 >>,
       << "unused7_u8", 1 >>, << "volume", 4 >>, << "wave_index", 4 >> >>
    \o (IF v < 6 THEN WaveTailV5 ELSE TailV6)

NoiseFields(v) ==
    NameFields \o
    << << "initial_volume", 1 >>, << "volume_sweep_dir", 4 >>, << "volume_sweep_change", 1 >>,
       << "unused_a", 4 >>, << "unused_b", 4 >>, << "unused_c", 4 >>, << "unused_d", 1 >>,
       << "unused_e", 4 >>, << "unused_f", 4 >> >>
    \o (IF v < 6 THEN NoiseTailV5 ELSE TailV6)

BodyFields(kind, v) ==
    CASE kind = "duty" -> DutyFields(v) [] kind = "wave" -> WaveFields(v) [] OTHER -> NoiseFields(v)

\* Instrument(...): the dataclass with every field it does not receive left None
Instrument(kind, inst_type, s, p, v) ==
    LET fs     == BodyFields(kind, v)
        u8(n)  == U8At(s, p + FieldOff(fs, n))
        u32(n) == U32At(s, p + FieldOff(fs, n))
        isDuty  == kind = "duty"
        isWave  == kind = "wave"
        isNoise == kind = "noise"
    IN  [type                |-> inst_type,
         name                |-> ShortStringAt(s, p),
         length              |-> u32("length"),
         length_enabled      |-> u8("length_enabled") # 0,
         initial_volume      |-> IF isDuty \/ isNoise THEN Some(u8("initial_volume")) ELSE None,
         volume_sweep_dir    |-> IF isDuty \/ isNoise THEN Some(u32("volume_sweep_dir")) ELSE None,
         volume_sweep_change |-> IF isDuty \/ isNoise THEN Some(u8("volume_sweep_change"))
                                 ELSE None,
         freq_sweep_time     |-> IF isDuty THEN Some(u32("freq_sweep_time")) ELSE None,
         sweep_enabled       |-> IF isDuty THEN Some(u32("sweep_enabled")) ELSE None,
         freq_sweep_shift    |-> IF isDuty THEN Some(u32("freq_sweep_shift")) ELSE None,
         duty_cycle          |-> IF isDuty THEN Some(u8("duty_cycle")) ELSE None,
         volume              |-> IF isWave THEN Some(u32("volume")) ELSE None,
         wave_index          |-> IF isWave THEN Some(u32("wave_index")) ELSE None,
         noise_mode          |-> IF isNoise /\ v < 6 THEN Some(u32("noise_mode")) ELSE None,
         subpattern_enabled  |-> IF v < 6 THEN None ELSE Some(u8("subpattern_enabled") # 0),
         rows                |-> None]

\* scan_shift that takes the first shifted position without comparing the candidate
scan_shift_FirstCandidate(s, base_off, kind, idx, shift, last) ==
    [found |-> TRUE, shift |-> shift, cand |-> U32At(s, base_off + shift),
     pos |-> base_off + shift, eofs |-> 0]

\* for shift in range(1, 5): seek(base_off + shift), read_u32, break on EOFError, stop at
\* the first candidate equal to the expected tag. `last` is the cursor left by the reads.
RECURSIVE scan_shift(_, _, _, _, _, _)
scan_shift(s, base_off, kind, idx, shift, last) ==
    IF shift > MaxShift
    THEN [found |-> FALSE, shift |-> 0, cand |-> 0, pos |-> last, eofs |-> 0]
    ELSE LET r == read_exact(s, base_off + shift, 4, << kind, idx, shift, "type.peek_shift" >>)
         IN  IF ~r.ok
             THEN [found |-> FALSE, shift |-> 0, cand |-> 0, pos |-> r.pos, eofs |-> 1]
             ELSE IF U32At(s, base_off + shift) = ExpectedTag(kind)
             THEN [found |-> TRUE, shift |-> shift, cand |-> U32At(s, base_off + shift),
                   pos |-> base_off + shift, eofs |-> 0]
             ELSE scan_shift(s, base_off, kind, idx, shift + 1, r.pos)

\* read_peek asking only for the 4 bytes of the tag
read_peek_TagOnly(s, base_off, kind, idx) == read_exact(s, base_off, 4, << kind, idx, "peek" >>)

\* peek = read_exact(f, 8, ...) at the start of each instrument parser
read_peek(s, base_off, kind, idx) == read_exact(s, base_off, PeekLen, << kind, idx, "peek" >>)

\* ------------------------------------------------------- other sections
WavetableFields == << << "nibble", 1 >> >>

\* parse_wavetables reading the filler byte at every version below 6
parse_wavetables_FillerBelow6(s, p, v) ==
    LET g == ReadRecords(s, p, << "wavetable" >>, NumWaves * NibblesPerWave, WavetableFields)
        r == IF g.ok /\ v < 6
             THEN read_exact(s, g.pos, 1, << "wavetable", "off_by_one_filler" >>)
             ELSE g
    IN  [ok |-> r.ok, pos |-> r.pos, err |-> r.err,
         waves |-> [w \in 1..NumWaves |->
                       [i \in 1..NibblesPerWave |->
                           U8At(s, p + (w - 1) * NibblesPerWave + (i - 1))]]]

\* parse_wavetables: 16 x 32 read_u8, then one filler byte when version < 3
parse_wavetables(s, p, v) ==
    LET g == ReadRecords(s, p, << "wavetable" >>, NumWaves * NibblesPerWave, WavetableFields)
        r == IF g.ok /\ v < WavetableFillerBelow
             THEN read_exact(s, g.pos, 1, << "wavetable", "off_by_one_filler" >>)
             ELSE g
    IN  [ok |-> r.ok, pos |-> r.pos, err |-> r.err,
         waves |-> [w \in 1..NumWaves |->
                       [i \in 1..NibblesPerWave |->
                           U8At(s, p + (w - 1) * NibblesPerWave + (i - 1))]]]

\* the reads of parse_patterns before the pattern loop
PatternHeadFields(v) ==
    << << "initial_ticks_per_row", 4 >> >>
    \o (IF v >= 6 THEN << << "timer_tempo_enabled", 1 >>, << "timer_tempo_divider", 4 >> >>
        ELSE <<>>)
    \o << << "num_patterns", 4 >> >>

\* PatternRowFields without the v6 word after the instrument value
PatternRowFields_NoFiller(v) ==
    << << "note", 4 >>, << "instrument_value", 4 >>, << "effect_code", 4 >>,
       << "effect_param", 1 >> >>

PatternRowFields(v) ==
    << << "note", 4 >>, << "instrument_value", 4 >> >>
    \o (IF v >= 6 THEN << << "unused_v6", 4 >> >> ELSE <<>>)
    \o << << "effect_code", 4 >>, << "effect_param", 1 >> >>

\* one iteration of the pattern loop: the index, then 64 rows
parse_one_pattern(s, p, v, n) ==
    LET ix == read_exact(s, p, 4, << "pattern", n, "index" >>)
        fs == PatternRowFields(v)
        w  == Width(fs)
        oi == FieldOff(fs, "instrument_value")
        oc == FieldOff(fs, "effect_code")
        op == FieldOff(fs, "effect_param")
        rr == IF ix.ok THEN ReadRecords(s, ix.pos, << "pattern", n, "row" >>, RowsPerBlock, fs)
              ELSE ix
    IN  [ok |-> rr.ok, pos |-> rr.pos, err |-> rr.err,
         pattern |->
            [index |-> U32At(s, p),
             rows  |-> [r \in 1..RowsPerBlock |->
                          LET o == p + 4 + (r - 1) * w
                          IN  [note           |-> U32At(s, o),
                               instrument_val |-> U32At(s, o + oi),
                               effect_code    |-> U32At(s, o + oc),
                               effect_param   |-> U8At(s, o + op)]]]]

chan_names == << "Duty1", "Duty2", "Wave", "Noise" >>

OrderPairFields == << << "index", 4 >>, << "filler", 4 >> >>

\* parse_order_channel with the stored word taken as the length itself
parse_order_channel_NoMinusOne(s, p, c) ==
    LET lw == read_exact(s, p, 4, << "orders", chan_names[c + 1], "length_plus_one" >>)
        order_len == U32At(s, p)
        rr == IF lw.ok
              THEN ReadRecords(s, lw.pos, << "orders", chan_names[c + 1] >>, order_len,
                               OrderPairFields)
              ELSE lw
    IN  [ok |-> rr.ok, pos |-> rr.pos, err |-> rr.err,
         indices |-> IF rr.ok
                     THEN [i \in 1..order_len |-> U32At(s, p + 4 + (i - 1) * Width(OrderPairFields))]
                     ELSE <<>>,
         fillers |-> IF rr.ok
                     THEN [i \in 1..order_len |->
                              U32At(s, p + 4 + (i - 1) * Width(OrderPairFields)
                                         + FieldOff(OrderPairFields, "filler"))]
                     ELSE <<>>]

\* one iteration of the channel loop of parse_orders (c counts from 0)
parse_order_channel(s, p, c) ==
    LET lw == read_exact(s, p, 4, << "orders", chan_names[c + 1], "length_plus_one" >>)
        order_len_plus_one == U32At(s, p)
        order_len == Max(0, order_len_plus_one - 1)
        rr == IF lw.ok
              THEN ReadRecords(s, lw.pos, << "orders", chan_names[c + 1] >>, order_len,
                               OrderPairFields)
              ELSE lw
    IN  [ok |-> rr.ok, pos |-> rr.pos, err |-> rr.err,
         indices |-> IF rr.ok
                     THEN [i \in 1..order_len |-> U32At(s, p + 4 + (i - 1) * Width(OrderPairFields))]
                     ELSE <<>>,
         fillers |-> IF rr.ok
                     THEN [i \in 1..order_len |->
                              U32At(s, p + 4 + (i - 1) * Width(OrderPairFields)
                                         + FieldOff(OrderPairFields, "filler"))]
                     ELSE <<>>]

\* read_string: u32 count, that many bytes, trailing spaces stripped, decoded
read_string(s, p, ctx) ==
    LET ln == read_exact(s, p, 4, ctx \o << "len" >>)
        n_chars == U32At(s, p)
        dt == IF ln.ok THEN read_exact(s, ln.pos, n_chars, ctx \o << "data" >>) ELSE ln
    IN  [ok |-> dt.ok, pos |-> dt.pos, err |-> dt.err,
         value |-> IF dt.ok THEN Utf8Decode(RStripSpace(BytesAt(s, p + 4, n_chars))) ELSE <<>>]

\* ------------------------------------------------------------ read_uge
\* The locals of read_uge before the UgeSong is built.
InitSong ==
    [name |-> <<>>, artist |-> <<>>, comment |-> <<>>,
     duty_instruments |-> <<>>, wave_instruments |-> <<>>, noise_instruments |-> <<>>,
     wavetable_nibbles |-> <<>>, initial_tpr |-> 0,
     timer_tempo_enabled |-> None, timer_tempo_divider |-> None,
     patterns |-> <<>>, orders |-> <<>>, routines |-> <<>>]

\* The locals of the sub-decoder that is running. For parse_orders: channels, and per
\* channel the order_len_plus_one word read (words) and the values its filler local
\* took (fillers).
InitCur ==
    [kind |-> "duty", idx |-> 0, base_off |-> 0, shift |-> 0, inst_type |-> 0,
     inst |-> <<>>, flag_off |-> 0, num_patterns |-> 0, channels |-> <<>>, words |-> <<>>,
     fillers |-> <<>>, chan_off |-> 0]

Raise(kind, e, p, eofs) ==
    /\ status' = kind
    /\ err' = e
    /\ pos' = p
    /\ pc' = "raised"
    /\ eofRaised' = eofRaised + eofs
    /\ UNCHANGED << stream, version, song, cur, warnings, val, out >>

RaiseEOF(r) == Raise("EOFError", r.err, r.pos, 1)

\* ReadVersion with the upper limit of the version check forgotten (if version < 5)
ReadVersion_NoUpperLimit ==
    /\ pc = "version"
    /\ LET r == read_exact(stream, pos, 4, << "header", "version" >>)
           v == U32At(stream, pos)
       IN  IF ~r.ok THEN RaiseEOF(r)
           ELSE IF v < 5
           THEN Raise("ValueError",
                      [NoErr EXCEPT !.type = "UnsupportedVersion", !.value = v, !.offset = pos],
                      r.pos, 0)
           ELSE /\ version' = v
                /\ pos' = r.pos
                /\ pc' = "header"
                /\ UNCHANGED << stream, song, cur, status, err, warnings, eofRaised, val, out >>

\* version = read_u32(...); versions other than 5 and 6 raise ValueError
ReadVersion ==
    /\ pc = "version"
    /\ LET r == read_exact(stream, pos, 4, << "header", "version" >>)
           v == U32At(stream, pos)
       IN  IF ~r.ok THEN RaiseEOF(r)
           ELSE IF v < 5 \/ v > 6
           THEN Raise("ValueError",
                      [NoErr EXCEPT !.type = "UnsupportedVersion", !.value = v, !.offset = pos],
                      r.pos, 0)
           ELSE /\ version' = v
                /\ pos' = r.pos
                /\ pc' = "header"
                /\ UNCHANGED << stream, song, cur, status, err, warnings, eofRaised, val, out >>

\* the three header short strings
ReadHeader ==
    /\ pc = "header"
    /\ LET r == ReadFields(stream, pos, << "header" >>, HeaderFields)
       IN  IF ~r.ok THEN RaiseEOF(r)
           ELSE /\ song' = [song EXCEPT
                              !.name = ShortStringAt(stream, pos),
                              !.artist = ShortStringAt(stream, pos + 1 + ShortStringPayload),
                              !.comment = ShortStringAt(stream, pos + 2 * (1 + ShortStringPayload))]
                /\ pos' = r.pos
                /\ pc' = "instr_tag"
                /\ UNCHANGED << stream, version, cur, status, err, warnings, eofRaised, val, out >>

\* the start of parse_duty/wave/noise_instrument: peek, type tag, resync scan
InstrTag ==
    /\ pc = "instr_tag"
    /\ LET base_off == pos
           peek == read_peek(stream, base_off, cur.kind, cur.idx)
           tg == read_exact(stream, base_off, 4, << cur.kind, cur.idx, "type" >>)
           inst_type == U32At(stream, base_off)
           sc == scan_shift(stream, base_off, cur.kind, cur.idx, 1, tg.pos)
       IN  IF ~peek.ok THEN RaiseEOF(peek)
           ELSE IF ~tg.ok THEN RaiseEOF(tg)
           ELSE IF inst_type = ExpectedTag(cur.kind)
           THEN /\ cur' = [cur EXCEPT !.base_off = base_off, !.shift = 0,
                                      !.inst_type = inst_type]
                /\ pos' = tg.pos
                /\ pc' = "instr_body"
                /\ UNCHANGED << stream, version, song, status, err, warnings, eofRaised,
                                val, out >>
           ELSE IF sc.found
           THEN /\ warnings' = Append(warnings,
                                      [kind |-> cur.kind, idx |-> cur.idx, shift |-> sc.shift,
                                       was |-> inst_type, base_off |-> base_off])
                /\ cur' = [cur EXCEPT !.base_off = base_off, !.shift = sc.shift,
                                      !.inst_type = sc.cand]
                /\ pos' = sc.pos
                /\ pc' = "instr_body"
                /\ UNCHANGED << stream, version, song, status, err, eofRaised, val, out >>
           ELSE Raise("ValueError",
                      [NoErr EXCEPT !.type = "UnexpectedTag", !.value = inst_type,
                                    !.offset = base_off],
                      sc.pos, sc.eofs)

AppendInstrument(sg, kind, inst) ==
    CASE kind = "duty" -> [sg EXCEPT !.duty_instruments = Append(@, inst)]
      [] kind = "wave" -> [sg EXCEPT !.wave_instruments = Append(@, inst)]
      [] OTHER         -> [sg EXCEPT !.noise_instruments = Append(@, inst)]

\* the three for i in range(15) loops of read_uge
NextSlot(c) ==
    IF c.idx + 1 < SlotsPerKind THEN [c EXCEPT !.idx = @ + 1, !.inst = <<>>]
    ELSE IF c.kind = "duty" THEN [c EXCEPT !.kind = "wave", !.idx = 0, !.inst = <<>>]
    ELSE IF c.kind = "wave" THEN [c EXCEPT !.kind = "noise", !.idx = 0, !.inst = <<>>]
    ELSE [c EXCEPT !.inst = <<>>]

AfterInstrument(c) ==
    IF c.idx + 1 = SlotsPerKind /\ c.kind = "noise" THEN "wavetables" ELSE "instr_tag"

\* WantRows with the version test forgotten: rows only when the flag was read as true
FlagOnlyRows(v, inst) == inst.subpattern_enabled = Some(TRUE)

\* WantRows with the v6 flag ignored: the rows are read whatever the flag says
AlwaysRows(v, inst) == TRUE

\* if version < 6: rows always; else: rows only if subpattern_enabled

WantRows(v, inst) == v < 6 \/ inst.subpattern_enabled = Some(TRUE)

\* the field reads of an instrument parser up to its version branch; an instrument
\* without rows (v6, flag false) is returned here
InstrBody ==
    /\ pc = "instr_body"
    /\ LET fs   == BodyFields(cur.kind, version)
           r    == ReadFields(stream, pos, << cur.kind, cur.idx >>, fs)
           inst == Instrument(cur.kind, cur.inst_type, stream, pos, version)
           wantRows == WantRows(version, inst)
       IN  IF ~r.ok THEN RaiseEOF(r)
           ELSE /\ pos' = r.pos
                /\ IF wantRows
                   THEN /\ cur' = [cur EXCEPT !.inst = inst, !.flag_off = r.pos - 1]
                        /\ pc' = "instr_rows"
                        /\ song' = song
                   ELSE /\ cur' = [NextSlot(cur) EXCEPT !.flag_off = r.pos - 1]
                        /\ pc' = AfterInstrument(cur)
                        /\ song' = AppendInstrument(song, cur.kind, inst)
                /\ UNCHANGED << stream, version, status, err, warnings, eofRaised, val, out >>

\* rows = parse_instrument_rows(...) and the return of the instrument
InstrRows ==
    /\ pc = "instr_rows"
    /\ LET r == parse_instrument_rows(stream, pos, version, << cur.kind, cur.idx >>)
       IN  IF ~r.ok THEN RaiseEOF(r)
           ELSE /\ pos' = r.pos
                /\ song' = AppendInstrument(song, cur.kind,
                                            [cur.inst EXCEPT !.rows = Some(r.rows)])
                /\ cur' = NextSlot(cur)
                /\ pc' = AfterInstrument(cur)
                /\ UNCHANGED << stream, version, status, err, warnings, eofRaised, val, out >>

Wavetables ==
    /\ pc = "wavetables"
    /\ LET r == parse_wavetables(stream, pos, version)
       IN  IF ~r.ok THEN RaiseEOF(r)
           ELSE /\ pos' = r.pos
                /\ song' = [song EXCEPT !.wavetable_nibbles = r.waves]
                /\ pc' = "patterns_head"
                /\ UNCHANGED << stream, version, cur, status, err, warnings, eofRaised,
                                val, out >>

PatternsHead ==
    /\ pc = "patterns_head"
    /\ LET fs == PatternHeadFields(version)
           r  == ReadFields(stream, pos, << "song" >>, fs)
           n  == U32At(stream, pos + FieldOff(fs, "num_patterns"))
       IN  IF ~r.ok THEN RaiseEOF(r)
           ELSE /\ pos' = r.pos
                /\ song' = [song EXCEPT
                     !.initial_tpr = U32At(stream, pos),
                     !.timer_tempo_enabled =
                        IF version >= 6
                        THEN Some(U8At(stream, pos + FieldOff(fs, "timer_tempo_enabled")) # 0)
                        ELSE None,
                     !.timer_tempo_divider =
                        IF version >= 6
                        THEN Some(U32At(stream, pos + FieldOff(fs, "timer_tempo_divider")))
                        ELSE None]
                /\ cur' = [cur EXCEPT !.num_patterns = n]
                /\ pc' = IF n = 0 THEN "orders" ELSE "patterns"
                /\ UNCHANGED << stream, version, status, err, warnings, eofRaised, val, out >>

PatternOne ==
    /\ pc = "patterns"
    /\ LET r == parse_one_pattern(stream, pos, version, Len(song.patterns))
       IN  IF ~r.ok THEN RaiseEOF(r)
           ELSE /\ pos' = r.pos
                /\ song' = [song EXCEPT !.patterns = Append(@, r.pattern)]
                /\ pc' = IF Len(song.patterns) + 1 = cur.num_patterns THEN "orders"
                         ELSE "patterns"
                /\ UNCHANGED << stream, version, cur, status, err, warnings, eofRaised,
                                val, out >>

OrdersChannel ==
    /\ pc = "orders"
    /\ LET c  == Len(cur.channels)
           r  == parse_order_channel(stream, pos, c)
           ch == Append(cur.channels, r.indices)
       IN  IF ~r.ok THEN RaiseEOF(r)
           ELSE /\ pos' = r.pos
                /\ cur' = [cur EXCEPT !.channels = ch, !.chan_off = pos,
                                      !.words = Append(@, U32At(stream, pos)),
                                      !.fillers = Append(@, r.fillers)]
                /\ IF c + 1 = NumChannels
                   THEN /\ song' = [song EXCEPT !.orders =
                                      [duty1 |-> ch[1], duty2 |-> ch[2], wave |-> ch[3],
                                       noise |-> ch[4]]]
                        /\ pc' = "routines"
                   ELSE /\ song' = song
                        /\ pc' = "orders"
                /\ UNCHANGED << stream, version, status, err, warnings, eofRaised, val, out >>

RoutineOne ==
    /\ pc = "routines"
    /\ LET i == Len(song.routines)
           r == read_string(stream, pos, << "routine", i >>)
       IN  IF ~r.ok THEN RaiseEOF(r)
           ELSE /\ pos' = r.pos
                /\ song' = [song EXCEPT !.routines = Append(@, r.value)]
                /\ pc' = IF i + 1 = NumRoutines THEN "return" ELSE "routines"
                /\ UNCHANGED << stream, version, cur, status, err, warnings, eofRaised,
                                val, out >>

\* return UgeSong(...)
Return ==
    /\ pc = "return"
    /\ status' = "returned"
    /\ pc' = "done"
    /\ UNCHANGED << stream, pos, version, song, cur, err, warnings, eofRaised, val, out >>

\* ------------------------------------------------------------ input files
\* The streams read_uge is run on. A description d gives a well-formed file of
\* version d.v laid out as the decoder reads it; d.stray bytes of 0x5A precede the
\* tag of slot d.straySlot and slot d.tagSlot carries the tag d.tag (slots 0..44:
\* duty 0..14, wave 15..29, noise 30..44; -1 for none).
SlotKind(slot) == Kinds[(slot \div SlotsPerKind) + 1]

InstrumentBytes(d, slot) ==
    LET kind == SlotKind(slot)
        flag == slot \in d.flagged
        tag  == IF slot = d.tagSlot THEN d.tag ELSE ExpectedTag(kind)
        body == Width(BodyFields(kind, d.v)) - (1 + ShortStringPayload) - 4
                    - (IF d.v < 6 THEN 0 ELSE 1)
    IN  (IF slot = d.straySlot THEN [i \in 1..d.stray |-> 90] ELSE <<>>)
        \o u32_bytes(tag)
        \o shortstring_bytes(IF flag THEN << 233, 65 >> ELSE <<>>)
        \o u32_bytes(slot + 1)
        \o Zeros(body)
        \o (IF d.v < 6
            THEN (IF flag THEN gen_rows_bytes(RowsPerBlock) ELSE Zeros(RowsPerBlock * RowBytes))
                 \o Zeros(PostRowsUnused)
            ELSE bool_bytes(flag) \o (IF flag THEN gen_rows_bytes(RowsPerBlock) ELSE <<>>))

\* the bytes of slots slot..last, one after the other
RECURSIVE SlotsBytes(_, _, _)
SlotsBytes(d, slot, last) ==
    IF slot > last THEN <<>>
    ELSE InstrumentBytes(d, slot) \o SlotsBytes(d, slot + 1, last)

PatternBytes(d, n) ==
    u32_bytes(10 + n)
    \o [k \in 1..(RowsPerBlock * Width(PatternRowFields(d.v))) |-> IF k = 1 THEN 90 ELSE 0]

RECURSIVE PatternsBytes(_, _)
PatternsBytes(d, n) ==
    IF n = d.npat THEN <<>> ELSE PatternBytes(d, n) \o PatternsBytes(d, n + 1)

ChannelBytes(d, c) ==
    u32_bytes(d.words[c])
    \o [k \in 1..(8 * Max(0, d.words[c] - 1)) |->
           (u32_bytes(10 + ((k - 1) \div 8)) \o u32_bytes(d.fil))[((k - 1) % 8) + 1]]

\* the sections parts written one after the other, with the offsets at which the
\* sections before the last end
RECURSIVE JoinParts(_, _)
JoinParts(parts, k) ==
    IF k > Len(parts) THEN <<>> ELSE parts[k] \o JoinParts(parts, k + 1)

RECURSIVE EndOfPart(_, _)
EndOfPart(parts, k) == IF k = 0 THEN 0 ELSE EndOfPart(parts, k - 1) + Len(parts[k])

Assemble(parts) ==
    [s     |-> WriteBytes(EmptyStream, JoinParts(parts, 1)),
     marks |-> { 0, 4 } \cup { EndOfPart(parts, k) : k \in 1..(Len(parts) - 1) }]

\* the file of description d, with the offsets at which its sections end
BuildFile(d) ==
    CHOOSE b \in
        { Assemble(parts) : parts \in
            { << u32_bytes(d.v) \o shortstring_bytes(<< 65 >>) \o shortstring_bytes(<<>>)
                    \o shortstring_bytes(<< 233 >>),
                 SlotsBytes(d, 0, SlotsPerKind - 1),
                 SlotsBytes(d, SlotsPerKind, 2 * SlotsPerKind - 1),
                 SlotsBytes(d, 2 * SlotsPerKind, 3 * SlotsPerKind - 1),
                 gen_wavetable_bytes,
                 u32_bytes(7)
                    \o (IF d.v >= 6 THEN bool_bytes(TRUE) \o u32_bytes(3) ELSE <<>>)
                    \o u32_bytes(d.npat) \o PatternsBytes(d, 0),
                 ChannelBytes(d, 1) \o ChannelBytes(d, 2) \o ChannelBytes(d, 3)
                    \o ChannelBytes(d, 4),
                 string_bytes(d.rt) \o Zeros(4 * (NumRoutines - 1)) >> } } : TRUE

Plain(v) ==
    [v |-> v, flagged |-> {}, npat |-> 1, words |-> << 2, 1, 0, 3 >>, fil |-> 7,
     rt |-> << 65, 32 >>, straySlot |-> -1, stray |-> 0, tagSlot |-> -1, tag |-> 0]

Versions == { 5, 6 }

FlagChoices == { {}, {0}, {SlotsPerKind}, {3 * SlotsPerKind - 1},
                 {0, SlotsPerKind, 3 * SlotsPerKind - 1} }

WordChoices ==
    { [c \in 1..NumChannels |-> w] : w \in 0..MaxOrderWord }
    \cup { [c \in 1..NumChannels |-> (w + c) % (MaxOrderWord + 1)] : w \in 0..MaxOrderWord }

RECURSIVE StringsUpTo(_)
StringsUpTo(n) ==
    IF n = 0 THEN { <<>> }
    ELSE StringsUpTo(n - 1)
         \cup { Append(s, c) : s \in { x \in StringsUpTo(n - 1) : Len(x) = n - 1 },
                               c \in { 32, 65, 233 } }

ValidDescriptions ==
    { [Plain(v) EXCEPT !.flagged = fl] : v \in Versions, fl \in FlagChoices }
    \cup { [Plain(v) EXCEPT !.npat = n] : v \in Versions, n \in 0..MaxPatterns }
    \cup { [Plain(v) EXCEPT !.words = w] : v \in Versions, w \in WordChoices }
    \cup { [Plain(v) EXCEPT !.fil = 0] : v \in Versions }
    \cup { [Plain(6) EXCEPT !.rt = s] : s \in StringsUpTo(MaxStrLen) }

ValidFiles == { BuildFile(d).s : d \in ValidDescriptions }

TruncDeltas == { 0, 2, 5, 9, 292 }

\* proper prefixes of well-formed files, cut in every section
TruncatedOf(b) ==
    { Truncate(b.s, n) :
        n \in ({ m + k : m \in b.marks, k \in TruncDeltas } \cup { b.s.len - k : k \in 1..5 })
              \cap 0..(b.s.len - 1) }

TruncatedFiles ==
    TruncatedOf(BuildFile(Plain(5))) \cup TruncatedOf(BuildFile(Plain(6)))
    \cup TruncatedOf(BuildFile([Plain(6) EXCEPT !.flagged = {0, SlotsPerKind}]))

TrailingFiles ==
    { WriteBytes(BuildFile(Plain(v)).s, [i \in 1..n |-> b]) :
        v \in Versions, n \in 1..MaxTrail, b \in { 0, 255 } }

BadVersions == { 0, 1, 2, 3, 4, 7, 8, 255, 256, 65541, 2147483647 }

BadVersionFiles ==
    UNION { { BuildFile([Plain(6) EXCEPT !.v = v]).s, write_u32(EmptyStream, v) }
          : v \in BadVersions }

ShortFiles == { Truncate(write_u32(EmptyStream, 6), n) : n \in 0..3 }

CorruptSlots == { 0, SlotsPerKind - 1, SlotsPerKind, 2 * SlotsPerKind, 3 * SlotsPerKind - 1 }

CorruptCases == ({ 5 } \X { 0 }) \cup ({ 6 } \X CorruptSlots)

StrayFiles ==
    { BuildFile([Plain(c[1]) EXCEPT !.straySlot = c[2], !.stray = n]).s :
        c \in CorruptCases, n \in 1..(MaxShift + 1) }

BadTagFiles ==
    { BuildFile([Plain(c[1]) EXCEPT !.tagSlot = c[2], !.tag = tg]).s :
        c \in CorruptCases, tg \in { 0, 1, 2, 9, 256 } }

\* a wrong tag in the last slot of a file that ends a few bytes into that slot
CutInTagFiles ==
    LET b     == BuildFile([Plain(6) EXCEPT !.tagSlot = 3 * SlotsPerKind - 1, !.tag = 9])
        start == CHOOSE m \in b.marks : Cardinality({ x \in b.marks : x > m }) = 3
        slot  == start - (4 + Width(BodyFields("noise", 6)))
    IN  { Truncate(b.s, slot + k) : k \in 0..12 }

\* s with the bytes bs written over the bytes at off..off+Len(bs)-1
PokeBytes(s, off, bs) ==
    LET span == off..(off + Len(bs) - 1)
        keep == (DOMAIN s.data \ span) \cup { o \in span : bs[o - off + 1] # 0 }
    IN  [len  |-> s.len,
         data |-> [o \in keep |-> IF o \in span THEN bs[o - off + 1] ELSE s.data[o]]]

\* the k-th section boundary of a built file, counted from 0: 0, 4, end of header,
\* of the duty, wave and noise instruments, of the wavetable, patterns and orders
MarkAt(b, k) == CHOOSE m \in b.marks : Cardinality({ x \in b.marks : x < m }) = k

\* the plain well-formed file of each version
PlainFiles == { BuildFile(Plain(v)) : v \in Versions }

\* well-formed files but for wavetable samples above 15
BigSampleFiles ==
    { PokeBytes(b.s, MarkAt(b, 5) + c[1], << c[2] >>) :
        b \in PlainFiles, c \in { << 0, 16 >>, << NumWaves * NibblesPerWave - 1, 255 >> } }

\* offsets of the stream-supplied counts of a built file: the pattern count, the
\* length word of the first order channel, the length of the first routine
CountOffsets(b) ==
    { MarkAt(b, 6) + Width(PatternHeadFields(U32At(b.s, 0))) - 4, MarkAt(b, 7), MarkAt(b, 8) }

\* well-formed files but for one count far larger than the bytes that follow it
HugeCountFiles ==
    UNION { { PokeBytes(b.s, off, u32_bytes(n)) :
                off \in CountOffsets(b), n \in { 4096, 2147483647 } } : b \in PlainFiles }

Inputs ==
    ValidFiles \cup TruncatedFiles \cup TrailingFiles \cup BadVersionFiles \cup ShortFiles
    \cup StrayFiles \cup BadTagFiles \cup CutInTagFiles \cup { generate_minimal_uge_v6 }
    \cup BigSampleFiles \cup HugeCountFiles

\* -------------------------------------------- primitive readers, one call
read_u8(s, p, ctx) ==
    LET r == read_exact(s, p, 1, ctx)
    IN  [ok |-> r.ok, pos |-> r.pos, err |-> r.err, value |-> U8At(s, p)]

read_u32(s, p, ctx) ==
    LET r == read_exact(s, p, 4, ctx)
    IN  [ok |-> r.ok, pos |-> r.pos, err |-> r.err, value |-> U32At(s, p)]

read_bool_u8(s, p, ctx) ==
    LET r == read_u8(s, p, ctx)
    IN  [ok |-> r.ok, pos |-> r.pos, err |-> r.err, value |-> r.value # 0]

read_shortstring(s, p, ctx) ==
    LET r == ReadFields(s, p, ctx,
                        << << "length", 1 >>, << "payload[255]", ShortStringPayload >> >>)
    IN  [ok |-> r.ok, pos |-> r.pos, err |-> r.err,
         value |-> IF r.ok THEN ShortStringAt(s, p) ELSE <<>>]

\* ---------------------- a value written by its writer, read by its reader
LongString == [i \in 1..300 |-> IF i % 7 = 0 THEN 233 ELSE 65]

\* strings whose encoding fills the short-string payload exactly
FullShortStrings ==
    { [i \in 1..ShortStringPayload |-> 65],
      [i \in 1..((ShortStringPayload + 1) \div 2) |-> IF i = 1 THEN 65 ELSE 233] }

\* a value of one kind; the fields of the other kinds stay at their defaults
CodecValue(kind, n, b, s) == [kind |-> kind, n |-> n, b |-> b, s |-> s]

CodecValues ==
    { CodecValue("u8", x, FALSE, <<>>) : x \in 0..255 }
    \cup { CodecValue("u32", x, FALSE, <<>>) :
             x \in { 0, 1, 255, 256, 65535, 65536, 16777216, 305419896, 2147483647 } }
    \cup { CodecValue("bool", 0, x, <<>>) : x \in BOOLEAN }
    \cup { CodecValue("shortstring", 0, FALSE, x) :
             x \in StringsUpTo(MaxStrLen) \cup FullShortStrings }
    \cup { CodecValue("string", 0, FALSE, x) : x \in StringsUpTo(MaxStrLen) \cup { LongString } }

CodecInit ==
    /\ stream \in { EmptyStream, WriteBytes(EmptyStream, << 7, 0, 9 >>) }
    /\ pos = stream.len
    /\ pc = "codec_write"
    /\ val \in CodecValues
    /\ out = CodecValue("none", 0, FALSE, <<>>)
    /\ version = 0
    /\ song = InitSong
    /\ cur = InitCur
    /\ status = "running"
    /\ err = NoErr
    /\ warnings = <<>>
    /\ eofRaised = 0

\* the writer for val appends to the file
CodecWrite ==
    /\ pc = "codec_write"
    /\ stream' = CASE val.kind = "u8"          -> write_u8(stream, val.n)
                   [] val.kind = "u32"         -> write_u32(stream, val.n)
                   [] val.kind = "bool"        -> write_bool(stream, val.b)
                   [] val.kind = "shortstring" -> write_shortstring(stream, val.s)
                   [] OTHER                    -> write_string(stream, val.s)
    /\ pc' = "codec_read"
    /\ UNCHANGED << pos, version, song, cur, status, err, warnings, eofRaised, val, out >>

\* the matching reader runs at the offset where the writer started
CodecRead ==
    /\ pc = "codec_read"
    /\ CASE val.kind = "u8" ->
               LET r == read_u8(stream, pos, << "u8" >>)
               IN  /\ out' = CodecValue(IF r.ok THEN "u8" ELSE "error", r.value, FALSE, <<>>)
                   /\ pos' = r.pos /\ err' = r.err
         [] val.kind = "u32" ->
               LET r == read_u32(stream, pos, << "u32" >>)
               IN  /\ out' = CodecValue(IF r.ok THEN "u32" ELSE "error", r.value, FALSE, <<>>)
                   /\ pos' = r.pos /\ err' = r.err
         [] val.kind = "bool" ->
               LET r == read_bool_u8(stream, pos, << "bool(u8)" >>)
               IN  /\ out' = CodecValue(IF r.ok THEN "bool" ELSE "error", 0, r.value, <<>>)
                   /\ pos' = r.pos /\ err' = r.err
         [] val.kind = "shortstring" ->
               LET r == read_shortstring(stream, pos, << "shortstring" >>)
               IN  /\ out' = CodecValue(IF r.ok THEN "shortstring" ELSE "error", 0, FALSE, r.value)
                   /\ pos' = r.pos /\ err' = r.err
         [] OTHER ->
               LET r == read_string(stream, pos, << "string" >>)
               IN  /\ out' = CodecValue(IF r.ok THEN "string" ELSE "error", 0, FALSE, r.value)
                   /\ pos' = r.pos /\ err' = r.err
    /\ pc' = "codec_done"
    /\ UNCHANGED << stream, version, song, cur, status, warnings, eofRaised, val >>

CodecNext == CodecWrite \/ CodecRead

\* ---------------- write_shortstring on texts around the 255-byte capacity
\* n characters, every third one U+00E9 (2 bytes), the others 'A'
TextOf(n) == [i \in 1..n |-> IF i % 3 = 0 THEN 233 ELSE 65]

ShortStringTexts ==
    StringsUpTo(MaxStrLen) \cup FullShortStrings
    \cup { [i \in 1..n |-> 65] : n \in { ShortStringPayload + 1, ShortStringPayload + 45 } }
    \cup { [i \in 1..((ShortStringPayload + 1) \div 2) |-> 233] }
    \cup { TextOf(n) : n \in 186..196 }

ShortStringInit ==
    /\ stream \in { EmptyStream, WriteBytes(EmptyStream, << 7, 0, 9 >>),
                    write_u32(EmptyStream, 6) }
    /\ pos = stream.len
    /\ pc = "codec_write"
    /\ val \in { CodecValue("shortstring", 0, FALSE, x) : x \in ShortStringTexts }
    /\ out = CodecValue("none", 0, FALSE, <<>>)
    /\ version = 0
    /\ song = InitSong
    /\ cur = InitCur
    /\ status = "running"
    /\ err = NoErr
    /\ warnings = <<>>
    /\ eofRaised = 0

ShortStringSpec == ShortStringInit /\ [][CodecNext]_vars

CodecSpec == CodecInit /\ [][CodecNext]_vars

Init ==
    /\ stream \in Inputs
    /\ pos = 0
    /\ pc = "version"
    /\ version = 0
    /\ song = InitSong
    /\ cur = InitCur
    /\ status = "running"
    /\ err = NoErr
    /\ warnings = <<>>
    /\ eofRaised = 0
    /\ val = <<>>
    /\ out = <<>>

Next ==
    \/ ReadVersion
    \/ ReadHeader
    \/ InstrTag
    \/ InstrBody
    \/ InstrRows
    \/ Wavetables
    \/ PatternsHead
    \/ PatternOne
    \/ OrdersChannel
    \/ RoutineOne
    \/ Return

Spec == Init /\ [][Next]_vars

\* ================================================================ claims
Finished == pc \in { "done", "raised" }

InstrumentsOf(sg, kind) ==
    CASE kind = "duty" -> sg.duty_instruments
      [] kind = "wave" -> sg.wave_instruments
      [] OTHER         -> sg.noise_instruments

\* C1: a stream whose first little-endian 32-bit word is not 5 or 6 makes read_uge
\* raise the unsupported-version error with exactly the 4 version bytes consumed and
\* nothing else read.
C1_UnsupportedVersionRejected ==
    (stream.len >= 4 /\ pc # "version"
        /\ ByteAt(stream, 0) + 256 * ByteAt(stream, 1) + 65536 * ByteAt(stream, 2)
             + 16777216 * ByteAt(stream, 3) \notin { 5, 6 })
    => /\ pc = "raised"
       /\ status = "ValueError"
       /\ err.type = "UnsupportedVersion"
       /\ pos = 4
       /\ song = InitSong
       /\ cur = InitCur
       /\ warnings = <<>>

C1_Witness ==
    /\ status = "ValueError"
    /\ err.type = "UnsupportedVersion"
    /\ err.value = 7
    /\ stream.len > 4
    /\ pos = 4

\* C2: the stream written by generate_minimal_uge_v6 is decoded by read_uge without
\* error, and the Song has 1 pattern, 1 order entry per channel and 16 empty routines.
C2_FixtureDecodes ==
    (Finished /\ stream = generate_minimal_uge_v6)
    => /\ status = "returned"
       /\ Len(song.patterns) = 1
       /\ Len(song.orders.duty1) = 1
       /\ Len(song.orders.duty2) = 1
       /\ Len(song.orders.wave) = 1
       /\ Len(song.orders.noise) = 1
       /\ song.routines = [i \in 1..16 |-> <<>>]

IsRightStripped(x, v) ==
    /\ Len(x) <= Len(v)
    /\ x = SubSeq(v, 1, Len(x))
    /\ \A i \in (Len(x) + 1)..Len(v) : v[i] = 32
    /\ (x = <<>> \/ x[Len(x)] # 32)

C4_TruncationReportsField ==
    /\ (Finished /\ stream \in TruncatedFiles) => status = "EOFError"
    /\ status = "EOFError"
       => LET field == err.ctx[Len(err.ctx)]
              width == IF field = "peek" THEN 4 ELSE err.need
          IN  /\ err.offset <= stream.len
              /\ stream.len < err.offset + width

\* C5: at version 6, a nonzero subpattern-enabled byte gives an instrument with
\* exactly 64 rows read from the 64*17 bytes after the flag; a zero byte gives an
\* instrument without rows, and the next record starts right after the flag byte.
C5_Step ==
    /\ (pc = "instr_body" /\ version = 6 /\ pc' # "raised" /\ pc' # pc)
       => LET flagAt == pos + Width(BodyFields(cur.kind, 6)) - 1
              before == InstrumentsOf(song, cur.kind)
              after  == InstrumentsOf(song', cur.kind)
          IN  /\ pos' = flagAt + 1
              /\ IF ByteAt(stream, flagAt) # 0
                 THEN pc' = "instr_rows" /\ song' = song
                 ELSE /\ pc' \in { "instr_tag", "wavetables" }
                      /\ Len(after) = Len(before) + 1
                      /\ after[Len(after)].rows = None
                      /\ after[Len(after)].subpattern_enabled = Some(FALSE)
    /\ (pc = "instr_rows" /\ version = 6 /\ pc' # "raised" /\ pc' # pc)
       => LET before == InstrumentsOf(song, cur.kind)
              after  == InstrumentsOf(song', cur.kind)
              last   == after[Len(after)]
          IN  /\ ByteAt(stream, pos - 1) # 0
              /\ pos' = pos + 64 * 17
              /\ pc' \in { "instr_tag", "wavetables" }
              /\ Len(after) = Len(before) + 1
              /\ last.subpattern_enabled = Some(TRUE)
              /\ last.rows # None
              /\ Len(last.rows[1]) = 64
              /\ \A k \in 1..64 :
                    LET o == pos + 17 * (k - 1)
                    IN  /\ last.rows[1][k].note = LittleEndianU32At(stream, o)
                        /\ last.rows[1][k].jump = LittleEndianU32At(stream, o + 8)
                        /\ last.rows[1][k].effect_code = LittleEndianU32At(stream, o + 12)
                        /\ last.rows[1][k].effect_param = ByteAt(stream, o + 16)

C6_Step ==
    (pc = "orders" /\ pc' # "raised" /\ cur' # cur)
    => LET w  == LittleEndianU32At(stream, pos)
           n  == IF w > 1 THEN w - 1 ELSE 0
           c  == Len(cur.channels)
           ch == cur'.channels
       IN  /\ pos' = pos + 4 + 8 * n
           /\ Len(ch) = c + 1
           /\ SubSeq(ch, 1, c) = cur.channels
           /\ Len(ch[c + 1]) = n
           /\ \A i \in 1..n : ch[c + 1][i] = LittleEndianU32At(stream, pos + 4 + 8 * (i - 1))
           /\ IF c + 1 = 4
              THEN /\ pc' = "routines"
                   /\ song'.orders = [duty1 |-> ch[1], duty2 |-> ch[2], wave |-> ch[3],
                                      noise |-> ch[4]]
              ELSE pc' = "orders" /\ song' = song

C7_CursorAtEndOfFile == status = "returned" => pos = stream.len

\* the filler words an Orders record carries: it has the four index lists only
RetainedFillers(orders) ==
    IF "fillers" \in DOMAIN orders THEN orders.fillers
    ELSE [c \in 1..NumChannels |-> <<>>]

\* C8: the filler word read for every order entry of every channel is retained in
\* the record read_uge returns.
C8_FillerPreserved ==
    status = "returned" => RetainedFillers(song.orders) = cur.fillers

\* C9: at an instrument slot whose tag differs from the tag of the slot's kind, the
\* decode finds the expected tag at a forward shift of 1 to 4 bytes, warns and goes on
\* from the shifted position, or raises; it never goes on from a shifted position
\* without a warning, and a returned Song holds only instruments carrying the tag of
\* their slot.
C9_Step ==
    LET slot     == Len(song.duty_instruments) + Len(song.wave_instruments)
                        + Len(song.noise_instruments)
        expected == slot \div 15
        tag      == LittleEndianU32At(stream, pos)
    IN  /\ (pc = "instr_tag" /\ pc' # pc)
           => \/ pc' = "raised" /\ status' \in { "ValueError", "EOFError" }
              \/ /\ pc' = "instr_body"
                 /\ tag = expected
                 /\ pos' = pos + 4
                 /\ warnings' = warnings
              \/ /\ pc' = "instr_body"
                 /\ tag # expected
                 /\ \E sh \in 1..4 :
                       /\ LittleEndianU32At(stream, pos + sh) = expected
                       /\ pos' = pos + sh
                       /\ Len(warnings') = Len(warnings) + 1
                       /\ SubSeq(warnings', 1, Len(warnings)) = warnings
                       /\ warnings'[Len(warnings')].shift = sh
                       /\ warnings'[Len(warnings')].base_off = pos
                       /\ warnings'[Len(warnings')].idx = slot % 15
        /\ (pc = "instr_tag" /\ tag # expected /\ stream.len >= pos + 8
              /\ \A sh \in 1..4 : LittleEndianU32At(stream, pos + sh) # expected)
           => (pc' = pc \/ (pc' = "raised" /\ status' = "ValueError"))
        /\ status' = "returned"
           => /\ \A i \in 1..Len(song'.duty_instruments) : song'.duty_instruments[i].type = 0
              /\ \A i \in 1..Len(song'.wave_instruments) : song'.wave_instruments[i].type = 1
              /\ \A i \in 1..Len(song'.noise_instruments) : song'.noise_instruments[i].type = 2

C9_TagMismatchHandled == [][C9_Step]_vars

C9_Witness ==
    /\ pc = "instr_body"
    /\ Len(warnings) = 1
    /\ warnings[1].shift = 3
    /\ pos = warnings[1].base_off + 3
    /\ cur.kind = "wave"

\* C10: every error raised while decoding reaches the caller of read_uge: once a
\* short read has raised, read_uge has ended with that truncation error, and no
\* error state is left by a later step.
C10_ErrorsPropagate ==
    /\ eofRaised > 0 => (status = "EOFError" /\ err.type = "EOFError" /\ eofRaised = 1)
    /\ status \in { "EOFError", "ValueError" } => (pc = "raised" /\ err.type # "none")
    /\ pc = "raised" => status \in { "EOFError", "ValueError" }

C10_Witness ==
    /\ status = "EOFError"
    /\ eofRaised = 1
    /\ err.ctx = << "noise", SlotsPerKind - 1, "peek" >>
    /\ stream.len >= err.offset + 5
    /\ LittleEndianU32At(stream, err.offset) = 9

\* C11: write_shortstring of a text whose encoding exceeds 255 bytes raises an
\* invalid-value error and writes no byte; for a text of at most 255 encoded bytes it
\* writes exactly 256 bytes: the length byte, the text's bytes, zero padding.
C11_ShortStringCapacity ==
    (pc = "codec_read" /\ val.kind = "shortstring")
    => LET e == Utf8Encode(val.s)
       IN  IF Len(e) > 255
           THEN status = "ValueError" /\ stream.len = pos
           ELSE /\ status = "running"
                /\ stream.len = pos + 256
                /\ ByteAt(stream, pos) = Len(e)
                /\ \A i \in 1..255 :
                      ByteAt(stream, pos + i) = IF i <= Len(e) THEN e[i] ELSE 0

\* C12: every returned Song has exactly 16 wavetables of exactly 32 samples, every
\* sample a nibble in 0..15.
C12_WavetableNibbles ==
    status = "returned"
    => /\ Len(song.wavetable_nibbles) = 16
       /\ \A w \in 1..16 :
             /\ Len(song.wavetable_nibbles[w]) = 32
             /\ \A i \in 1..32 : song.wavetable_nibbles[w][i] \in 0..15

\* C13: parse_patterns reads the ticks-per-row word, at v6 the timer-tempo byte and
\* word, the pattern count n, then n patterns of a 32-bit index and 64 rows; a row is
\* 13 bytes at v5 and 17 bytes at v6 (one filler word after the instrument value), so
\* the head takes 8 bytes at v5 and 13 at v6 and every pattern 4 + 64*13 or 4 + 64*17;
\* patterns are kept in stream order with their stored index.
C13_Step ==
    LET hd == IF version = 5 THEN 8 ELSE 13
        rw == IF version = 5 THEN 13 ELSE 17
    IN  /\ (pc = "patterns_head" /\ pc' # "raised" /\ pc' # pc)
           => LET n == LittleEndianU32At(stream, pos + hd - 4)
              IN  /\ pos' = pos + hd
                  /\ song'.initial_tpr = LittleEndianU32At(stream, pos)
                  /\ version = 6 =>
                        /\ song'.timer_tempo_enabled = Some(ByteAt(stream, pos + 4) # 0)
                        /\ song'.timer_tempo_divider = Some(LittleEndianU32At(stream, pos + 5))
                  /\ song'.patterns = <<>>
                  /\ cur'.num_patterns = n
                  /\ pc' = IF n = 0 THEN "orders" ELSE "patterns"
        /\ (pc = "patterns" /\ pc' # "raised" /\ song' # song)
           => LET k   == Len(song.patterns)
                  pat == song'.patterns[k + 1]
              IN  /\ k < cur.num_patterns
                  /\ pos' = pos + 4 + 64 * rw
                  /\ Len(song'.patterns) = k + 1
                  /\ SubSeq(song'.patterns, 1, k) = song.patterns
                  /\ pat.index = LittleEndianU32At(stream, pos)
                  /\ Len(pat.rows) = 64
                  /\ \A r \in 1..64 :
                        LET o == pos + 4 + rw * (r - 1)
                        IN  /\ pat.rows[r].note = LittleEndianU32At(stream, o)
                            /\ pat.rows[r].instrument_val = LittleEndianU32At(stream, o + 4)
                            /\ pat.rows[r].effect_code = LittleEndianU32At(stream, o + rw - 5)
                            /\ pat.rows[r].effect_param = ByteAt(stream, o + rw - 1)
                  /\ pc' = IF k + 1 = cur.num_patterns THEN "orders" ELSE "patterns"

C13_PatternSection == [][C13_Step]_vars

C13_Witness ==
    /\ status = "returned"
    /\ version = 6
    /\ Len(song.patterns) = 2
    /\ song.patterns[1].index = 10
    /\ song.patterns[2].index = 11
    /\ song.patterns[2].rows[1].note = 90

AllInstruments == song.duty_instruments \o song.wave_instruments \o song.noise_instruments

IsOptionalBool(x) == x = Some(TRUE) \/ x = Some(FALSE)

\* C14: at version 5 the timer-tempo fields are absent, every instrument has
\* subpattern_enabled absent and exactly 64 rows, and every noise instrument has a
\* noise_mode; at version 6 the returned Song has both timer-tempo fields, every
\* instrument has a boolean subpattern_enabled and no noise instrument has a
\* noise_mode. A returned Song has 15 instruments of each kind.
C14_VersionFields ==
    /\ version = 5
       => /\ song.timer_tempo_enabled = None
          /\ song.timer_tempo_divider = None
          /\ \A i \in 1..Len(AllInstruments) :
                /\ AllInstruments[i].subpattern_enabled = None
                /\ AllInstruments[i].rows # None
                /\ Len(AllInstruments[i].rows[1]) = 64
          /\ \A i \in 1..Len(song.noise_instruments) :
                song.noise_instruments[i].noise_mode # None
    /\ version = 6
       => /\ status = "returned"
             => /\ IsOptionalBool(song.timer_tempo_enabled)
                /\ song.timer_tempo_divider # None
          /\ \A i \in 1..Len(AllInstruments) :
                IsOptionalBool(AllInstruments[i].subpattern_enabled)
          /\ \A i \in 1..Len(song.noise_instruments) :
                song.noise_instruments[i].noise_mode = None
    /\ status = "returned" => Len(AllInstruments) = 45

C14_Witness ==
    /\ status = "returned"
    /\ version = 5
    /\ Len(song.noise_instruments) = 15
    /\ song.noise_instruments[15].noise_mode = Some(0)
    /\ song.duty_instruments[1].subpattern_enabled = None

\* C15 as stated: parse_wavetables consumes 513 bytes at version 5 (the grid and one
\* filler byte) and 512 bytes at version 6.
C15_Step_FillerAtV5 ==
    (pc = "wavetables" /\ pc' # "raised" /\ pc' # pc)
    => pos' = pos + (IF version = 5 THEN 513 ELSE 512)

C15_Step ==
    (pc = "wavetables" /\ pc' # "raised" /\ pc' # pc)
    => /\ pos' = pos + 512
       /\ pc' = "patterns_head"
       /\ Len(song'.wavetable_nibbles) = 16
       /\ \A w \in 1..16 :
             /\ Len(song'.wavetable_nibbles[w]) = 32
             /\ \A i \in 1..32 :
                   song'.wavetable_nibbles[w][i] = ByteAt(stream, pos + 32 * (w - 1) + (i - 1))

C16_Step ==
    /\ (pc \in { "instr_body", "instr_rows" } /\ pc' \in { "instr_tag", "wavetables" }
          /\ cur.shift = 0)
       => pos' - cur.base_off =
             IF version = 5 THEN 1398
             ELSE IF ByteAt(stream, cur.base_off + 292) = 0 THEN 293 ELSE 1381
    /\ (pc # "wavetables" /\ pc' = "wavetables" /\ version = 6 /\ warnings = <<>>
          /\ \A o \in { 4 + 3 * 256 + 293 * k + 292 : k \in 0..44 } : ByteAt(stream, o) = 0)
       => pos' = 4 + 3 * 256 + 45 * 293

C17_Variant ==
    (stream.len - pos) + (IF Finished THEN 0 ELSE IF pc = "return" THEN 1 ELSE 2)

\* C17: read_uge terminates on every input, returning a Song or raising: every step
\* lowers a measure that is never negative (so a run has at most stream.len + 2
\* steps) and leads to a point of read_uge that has a next step or is its end; every
\* iteration of a loop driven by a stream-supplied count (patterns, order pairs) and
\* every long-string read consumes at least one byte or raises the truncation error;
\* the resync scan goes at most 4 bytes forward; and a count far larger than the
\* remaining bytes ends in the truncation error.
C17_Step ==
    /\ vars' # vars => (C17_Variant' < C17_Variant /\ pc \notin { "raised", "done" })
    /\ C17_Variant' >= 0
    /\ pc' \in { "version", "header", "instr_tag", "instr_body", "instr_rows", "wavetables",
                 "patterns_head", "patterns", "orders", "routines", "return", "done",
                 "raised" }
    /\ (pc' = "done") <=> (status' = "returned")
    /\ (pc' = "raised") <=> (status' \in { "EOFError", "ValueError" })
    /\ (pc \in { "patterns", "orders", "routines" } /\ vars' # vars)
       => (pos' > pos \/ (pc' = "raised" /\ status' = "EOFError"))
    /\ (pc = "orders" /\ pc' # "raised" /\ cur' # cur)
       => pos' - pos = 4 + 8 * Len(cur'.channels[Len(cur'.channels)])
    /\ (pc = "instr_tag" /\ pc' = "instr_body")
       => (pos' - pos \in 1..4 /\ cur'.shift \in 0..4)
    /\ (Finished' /\ (cur'.num_patterns >= 4096
                        \/ (\E c \in 1..Len(cur'.words) : cur'.words[c] >= 4096)))
       => status' = "EOFError"

C17_Terminates == [][C17_Step]_vars

C17_Witness ==
    /\ status = "EOFError"
    /\ cur.num_patterns = 2147483647
    /\ Len(song.patterns) = 1
    /\ pos = stream.len

====
